---------------------------- MODULE Spec2Model ----------------------------
(***************************************************************************)
(* DDBoat guidance and control: the mission loop of                        *)
(* src/examples/ddboat.py (main_example), the plain navigation loop of     *)
(* src/ddboat.py, and the pure geometry / control-law functions both use.  *)
(*                                                                         *)
(* Numbers.  Planar coordinates and distances are whole metres, angles are *)
(* whole degrees.  The position set keeps every boat-to-waypoint vector on *)
(* an axis, where np.hypot and np.arctan2 are exact.  Thrust is computed   *)
(* in fixed point with Scale units per motor unit, so that rot_a = 0.1 and *)
(* the truncation int(np.clip(...)) are exact.                             *)
(*                                                                         *)
(* Further parts: compute_compass_heading, convert_to_utm and the two GLL  *)
(* conversions on their own; the telemetry snapshot shared by navigation() *)
(* and the HTTP handler; the relay of src/nav_data_app.py.                 *)
(***************************************************************************)
EXTENDS Integers, Sequences, FiniteSets, TLC

VARIABLES
    pc,                   \* position of the main thread in main_example
    exc,                  \* exception in flight / propagated: "none", "SystemExit", "Error"
    gps_alive,            \* environment: the receiver still delivers sentences
    fix,                  \* outcome of the last non-blocking GPS read: "unread", "ok", "not_ok"
    waypoint_coords,      \* main_example: the mission, a sequence of Coordinate
    waypoint_coords_idx,  \* main_example: the cursor (0-based, as in the code)
    waypoint_coord,       \* main_example: the active waypoint
    current_coord,        \* main_example: position returned by navigation()
    cur_heading,          \* main_example: compass heading returned by navigation()
    distance_to_waypoint, \* main_example: guidance output
    heading_to_waypoint,  \* main_example: guidance output
    last_cmd,             \* last command received by ard.send_arduino_cmd_motor
    cycle_cmds,           \* commands sent since the current cycle began
    idx0,                 \* the cursor when the current cycle began
    fn_in,                \* pure-function harness: the arguments
    fn_out,               \* pure-function harness: the result
    dicts,                \* the dict objects of the process, by identity
    latest_nav_data,      \* module global: identity of the published dict
    nav_pc,               \* main thread: position in its navigation() calls
    nav_calls,            \* main thread: navigation() calls begun so far
    nav_dict,             \* navigation(): identity of the dict being built
    nav_k,                \* navigation(): next item of the dict display
    http_pc,              \* server thread: position in do_GET
    http_ref,             \* do_GET: the dict loaded from the global
    http_body,            \* do_GET: items serialised so far
    http_k,               \* do_GET: next item to serialise
    response,             \* body of the last /api/nav_data response, if any
    data_source_ip,       \* nav_data_app global
    data_url,             \* nav_data_app global
    gps_data_history,     \* nav_data_app global: the samples relayed so far
    fetch_pc,             \* fetch_gps_data thread: position in its loop
    fetch_url,            \* fetch_gps_data: the URL the pending request went to
    fetch_data,           \* fetch_gps_data: the sample of the last response
    post_pc,              \* set_data_source_ip handler: position
    history_data          \* payload of the last history_data event, if any

vars == << pc, exc, gps_alive, fix, waypoint_coords, waypoint_coords_idx,
           waypoint_coord, current_coord, cur_heading, distance_to_waypoint,
           heading_to_waypoint, last_cmd, cycle_cmds, idx0, fn_in, fn_out,
           dicts, latest_nav_data, nav_pc, nav_calls, nav_dict, nav_k,
           http_pc, http_ref, http_body, http_k, response,
           data_source_ip, data_url, gps_data_history, fetch_pc, fetch_url,
           fetch_data, post_pc, history_data >>

missionVars == << waypoint_coords, waypoint_coords_idx, waypoint_coord, idx0 >>
guidanceVars == << distance_to_waypoint, heading_to_waypoint >>
navVars == << current_coord, cur_heading >>
motorVars == << last_cmd, cycle_cmds >>
fnVars == << fn_in, fn_out >>
envVars == << exc, gps_alive, fix >>

teleVars == << dicts, latest_nav_data, nav_pc, nav_calls, nav_dict, nav_k,
               http_pc, http_ref, http_body, http_k, response >>
relayVars == << data_source_ip, data_url, gps_data_history, fetch_pc,
                fetch_url, fetch_data, post_pc, history_data >>
sideVars == << teleVars, relayVars >>

\* line 37: latest_nav_data = {}
EmptyDict == << >>

\* the telemetry side before anything ran: the global names the empty dict
\* of line 37, no server thread yet, no response sent
TelemetryIdle ==
    /\ dicts = << EmptyDict >>
    /\ latest_nav_data = 1
    /\ nav_pc = "call"
    /\ nav_calls = 0
    /\ nav_dict = 0
    /\ nav_k = 1
    /\ http_pc = "down"
    /\ http_ref = 0
    /\ http_body = EmptyDict
    /\ http_k = 1
    /\ response = << >>

\* data_url = f'http://{data_source_ip}:8000/api/nav_data'
UrlOf(ip) == [ host |-> ip, port |-> 8000, path |-> "/api/nav_data" ]

\* nav_data_app.py lines 16-20 and the threads before their first step
RelayIdle ==
    /\ data_source_ip = "127.0.0.1"
    /\ data_url = UrlOf("127.0.0.1")
    /\ gps_data_history = << >>
    /\ fetch_pc = "fetch"
    /\ fetch_url = UrlOf("127.0.0.1")
    /\ fetch_data = << >>
    /\ post_pc = "idle"
    /\ history_data = << >>

SideIdle == TelemetryIdle /\ RelayIdle

---------------------------------------------------------------------------
(* Program constants *)

Scale == 10                   \* fixed-point units per motor unit (rot_a = 1/Scale)
rot_a == 1                    \* 0.1, in 1/Scale
rot_b == 0
acc_a == 2
acc_b == 0
acceptable_heading_err == 20
acceptable_distance_err == 5
MIN_THRUST == 50
MAX_THRUST == 255
FullTurn == 360
HalfTurn == 180
QuarterTurn == 90

(* Bound of the control-law harness: the largest distance tried, in metres *)
MaxDist == 260

Abs(n) == IF n < 0 THEN -n ELSE n

---------------------------------------------------------------------------
(* Coordinate *)

Coordinate(px, py) == [x |-> px, y |-> py]

\* np.hypot on integer vectors whose length is a whole number
Hypot(dx, dy) ==
    CHOOSE r \in 0..(Abs(dx) + Abs(dy)) : r * r = dx * dx + dy * dy

\* np.degrees(np.arctan2(dy, dx)) on the eight compass directions and (0, 0)
\* A component of 1 beside one of Negligible stands for a ratio below the
\* resolution of np.float64 at 360 degrees (2^-45 degree is about 5e-16 rad,
\* e.g. y = -1e-13 beside x = 1000.0): the angle is not zero, but it vanishes
\* in any sum with 360.  Only the order of the two magnitudes is kept.
Negligible == 1000

Atan2Deg(dy, dx) ==
    CASE dx > 0 /\ dy = 0        -> 0
      [] dx > 0 /\ dy = dx       -> 45
      [] dx = 0 /\ dy > 0        -> 90
      [] dx < 0 /\ dy = -dx      -> 135
      [] dx < 0 /\ dy = 0        -> 180
      [] dx < 0 /\ dy = dx       -> -135
      [] dx = 0 /\ dy < 0        -> -90
      [] dx > 0 /\ dy = -dx      -> -45
      [] dx = 0 /\ dy = 0        -> 0
      [] dx > 0 /\ dy # 0 /\ Abs(dy) * Negligible <= dx -> 0

distance_to(self, other) == Hypot(self.x - other.x, self.y - other.y)

\* angle_to, lines 113-118: the geographic bearing of the vector (dx, dy)
TargetHeading(dx, dy) ==
    LET t == QuarterTurn - Atan2Deg(dy, dx)
    IN  IF t < 0 THEN t + FullTurn ELSE t

\* the wrap without its elif branch
AngleDiff_NoLowerWrap(target_heading, current_heading) ==
    LET angle_diff == target_heading - current_heading
    IN  IF angle_diff > HalfTurn THEN angle_diff - FullTurn
        ELSE angle_diff

\* the wrap correcting by half a turn instead of a full turn
AngleDiff_HalfPeriod(target_heading, current_heading) ==
    LET angle_diff == target_heading - current_heading
    IN  IF angle_diff > HalfTurn THEN angle_diff - HalfTurn
        ELSE IF angle_diff < -HalfTurn THEN angle_diff + HalfTurn
        ELSE angle_diff

\* angle_to, lines 120-126: the wrap of target_heading - current_heading
AngleDiff(target_heading, current_heading) ==
    LET angle_diff == target_heading - current_heading
    IN  IF angle_diff > HalfTurn THEN angle_diff - FullTurn
        ELSE IF angle_diff < -HalfTurn THEN angle_diff + FullTurn
        ELSE angle_diff

angle_to(self, other, current_heading) ==
    AngleDiff(TargetHeading(other.x - self.x, other.y - self.y), current_heading)

\* compute_compass_heading on a calibrated vector <<x, y, z>>
\* compute_compass_heading without the normalisation of negative angles
compute_compass_heading_NoWrap(mag_calib) == Atan2Deg(mag_calib[2], mag_calib[1])

\* heading_deg is the float of line 284 rounded to whole degrees.  The float
\* is negative (line 285) when its whole part is, and also when it is a
\* negligible angle below the x axis; line 286 adds 360 in np.float64, which
\* rounds such an angle away and leaves 360.0.
compute_compass_heading(mag_calib) ==
    LET y_calib == mag_calib[2]
        heading_deg == Atan2Deg(y_calib, mag_calib[1])
    IN  IF heading_deg < 0 \/ (heading_deg = 0 /\ y_calib < 0)
        THEN heading_deg + FullTurn
        ELSE heading_deg

---------------------------------------------------------------------------
(* Control law and actuator layer, main_example lines 483-509 *)

\* np.clip
Clip(v, lo, hi) == IF v < lo THEN lo ELSE IF v > hi THEN hi ELSE v

\* F_l with the turning threshold written >= instead of >
RawLeft_Inclusive(d, e) ==
    LET rot_speed == rot_a * Abs(e) + rot_b * Scale
        F_u == (acc_a * d + acc_b) * Scale
    IN  (IF e >= acceptable_heading_err THEN rot_speed ELSE 0) + F_u \div 2

\* F_l before clipping, in 1/Scale
RawLeft(d, e) ==
    LET rot_speed == rot_a * Abs(e) + rot_b * Scale
        F_u == (acc_a * d + acc_b) * Scale
    IN  (IF e > acceptable_heading_err THEN rot_speed ELSE 0) + F_u \div 2

\* F_r before clipping, in 1/Scale
RawRight(d, e) ==
    LET rot_speed == rot_a * Abs(e) + rot_b * Scale
        F_u == (acc_a * d + acc_b) * Scale
    IN  (IF e <= acceptable_heading_err /\ e < -acceptable_heading_err
            THEN rot_speed ELSE 0) + F_u \div 2

\* int(np.clip(...)) with the lower limit left out
ClipInt_NoFloor(raw) == (IF raw > MAX_THRUST * Scale THEN MAX_THRUST * Scale ELSE raw) \div Scale

\* int(np.clip(F, 50.0, 255.0))
ClipInt(raw) == Clip(raw, MIN_THRUST * Scale, MAX_THRUST * Scale) \div Scale

\* the pair handed to set_motor_speeds
ThrustCommand(d, e) == << ClipInt(RawLeft(d, e)), ClipInt(RawRight(d, e)) >>

StopCommand == << 0, 0 >>

---------------------------------------------------------------------------
(* The environment of the mission loop *)

goal_coord == Coordinate(0, 100)

\* planar positions the projected GPS fix can take (all on the mission's axis)
Points == { Coordinate(0, v) : v \in {0, 3, 5, 95, 98, 100, 400} }

\* calibrated magnetometer vectors: the eight compass directions
MagVectors == { << 1, 0, 0 >>, << 1, 1, 0 >>, << 0, 1, 1 >>, << -1, 1, 0 >>,
                << -1, 0, 0 >>, << -1, -1, 1 >>, << 0, -1, 0 >>, << 1, -1, 0 >> }

TryPcs == { "poll", "poll_sleep", "guidance", "mission", "mc_test", "mc_stop",
            "mc_sleep", "mc_next", "control", "cycle_sleep" }
FinallyPcs == { "cleanup_save", "cleanup_stop" }

---------------------------------------------------------------------------
(* main_example of src/examples/ddboat.py *)

\* lines 404-461: the mission is [goal_coord, start_coord], the cursor is 0
Init ==
    /\ SideIdle
    /\ pc = "poll"
    /\ exc = "none"
    /\ gps_alive = TRUE
    /\ fix = "ok"
    /\ \E start_coord \in Points : waypoint_coords = << goal_coord, start_coord >>
    /\ waypoint_coords_idx = 0
    /\ waypoint_coord = goal_coord
    /\ current_coord = goal_coord
    /\ cur_heading = 0
    /\ distance_to_waypoint = 0
    /\ heading_to_waypoint = 0
    /\ last_cmd = << >>
    /\ cycle_cmds = << >>
    /\ idx0 = 0
    /\ fn_in = << >>
    /\ fn_out = << >>

\* the receiver stops delivering sentences
GpsDisconnect ==
    /\ pc \in TryPcs
    /\ gps_alive
    /\ gps_alive' = FALSE
    /\ UNCHANGED << pc, exc, fix, missionVars, navVars, guidanceVars, motorVars, fnVars, sideVars >>

\* read_gps_data, one pass of its while loop that gets rmc_ok, then the rest
\* of navigation(): projection, IMU read, heading
NavigationOk ==
    /\ pc = "poll"
    /\ gps_alive
    /\ \E p \in Points, m \in MagVectors :
          /\ current_coord' = p
          /\ cur_heading' = compute_compass_heading(m)
    /\ fix' = "ok"
    /\ pc' = "guidance"
    /\ UNCHANGED << exc, gps_alive, missionVars, guidanceVars, motorVars, fnVars, sideVars >>

\* read_gps_data, one pass of its while loop with rmc_ok false
PollNotOk ==
    /\ pc = "poll"
    /\ fix' = "not_ok"
    /\ pc' = "poll_sleep"
    /\ UNCHANGED << exc, gps_alive, missionVars, navVars, guidanceVars, motorVars, fnVars, sideVars >>

\* read_gps_data: time.sleep(0.01), then poll again
PollSleep ==
    /\ pc = "poll_sleep"
    /\ pc' = "poll"
    /\ UNCHANGED << envVars, missionVars, navVars, guidanceVars, motorVars, fnVars, sideVars >>

\* lines 467-469
Guidance ==
    /\ pc = "guidance"
    /\ distance_to_waypoint' = distance_to(current_coord, waypoint_coord)
    /\ heading_to_waypoint' = angle_to(current_coord, waypoint_coord, cur_heading)
    /\ pc' = "mission"
    /\ UNCHANGED << envVars, missionVars, navVars, motorVars, fnVars, sideVars >>

\* lines 474-476 with the arrival test written <= instead of <
MissionControl_Inclusive ==
    /\ pc = "mission"
    /\ IF distance_to_waypoint <= acceptable_distance_err
          THEN /\ waypoint_coords_idx' = waypoint_coords_idx + 1
               /\ pc' = "mc_test"
          ELSE /\ waypoint_coords_idx' = waypoint_coords_idx
               /\ pc' = "control"
    /\ UNCHANGED << envVars, waypoint_coords, waypoint_coord, idx0,
                    navVars, guidanceVars, motorVars, fnVars, sideVars >>

\* lines 474-476
MissionControl ==
    /\ pc = "mission"
    /\ IF distance_to_waypoint < acceptable_distance_err
          THEN /\ waypoint_coords_idx' = waypoint_coords_idx + 1
               /\ pc' = "mc_test"
          ELSE /\ waypoint_coords_idx' = waypoint_coords_idx
               /\ pc' = "control"
    /\ UNCHANGED << envVars, waypoint_coords, waypoint_coord, idx0,
                    navVars, guidanceVars, motorVars, fnVars, sideVars >>

\* lines 477-478
McTest ==
    /\ pc = "mc_test"
    /\ pc' = IF waypoint_coords_idx = Len(waypoint_coords)
                THEN "cleanup_save" ELSE "mc_stop"
    /\ UNCHANGED << envVars, missionVars, navVars, guidanceVars, motorVars, fnVars, sideVars >>

\* line 479
McStop ==
    /\ pc = "mc_stop"
    /\ last_cmd' = StopCommand
    /\ cycle_cmds' = Append(cycle_cmds, StopCommand)
    /\ pc' = "mc_sleep"
    /\ UNCHANGED << envVars, missionVars, navVars, guidanceVars, fnVars, sideVars >>

\* line 480
McSleep ==
    /\ pc = "mc_sleep"
    /\ pc' = "mc_next"
    /\ UNCHANGED << envVars, missionVars, navVars, guidanceVars, motorVars, fnVars, sideVars >>

\* line 481 reading the list one place too low (the waypoint just reached)
McNext_Stale ==
    /\ pc = "mc_next"
    /\ waypoint_coord' = waypoint_coords[waypoint_coords_idx]
    /\ pc' = "control"
    /\ UNCHANGED << envVars, waypoint_coords, waypoint_coords_idx, idx0,
                    navVars, guidanceVars, motorVars, fnVars, sideVars >>

\* line 481 (Python indexes from 0, a TLA+ sequence from 1)
McNext ==
    /\ pc = "mc_next"
    /\ waypoint_coord' = waypoint_coords[waypoint_coords_idx + 1]
    /\ pc' = "control"
    /\ UNCHANGED << envVars, waypoint_coords, waypoint_coords_idx, idx0,
                    navVars, guidanceVars, motorVars, fnVars, sideVars >>

\* lines 483-514
Control ==
    /\ pc = "control"
    /\ LET cmd == ThrustCommand(distance_to_waypoint, heading_to_waypoint)
       IN  /\ last_cmd' = cmd
           /\ cycle_cmds' = Append(cycle_cmds, cmd)
    /\ pc' = "cycle_sleep"
    /\ UNCHANGED << envVars, missionVars, navVars, guidanceVars, fnVars, sideVars >>

\* line 517, then the next cycle begins at line 465
CycleSleep ==
    /\ pc = "cycle_sleep"
    /\ pc' = "poll"
    /\ cycle_cmds' = << >>
    /\ idx0' = waypoint_coords_idx
    /\ UNCHANGED << envVars, waypoint_coords, waypoint_coords_idx,
                    waypoint_coord, navVars, guidanceVars, last_cmd, fnVars, sideVars >>

\* a sensor driver raises inside navigation(): control passes to finally
LoopException ==
    /\ pc = "poll"
    /\ exc' = "Error"
    /\ pc' = "cleanup_save"
    /\ UNCHANGED << gps_alive, fix, missionVars, navVars, guidanceVars, motorVars, fnVars, sideVars >>

\* SIGINT while inside try: signal_handler saves (and may raise), else calls
\* sys.exit(0); either exception unwinds into finally
SigIntInTry ==
    /\ pc \in TryPcs
    /\ \E e \in { "SystemExit", "Error" } : exc' = e
    /\ pc' = "cleanup_save"
    /\ UNCHANGED << gps_alive, fix, missionVars, navVars, guidanceVars, motorVars, fnVars, sideVars >>

\* SIGINT while inside finally: the handler's exception leaves main_example
SigIntInFinally ==
    /\ pc \in FinallyPcs
    /\ \E e \in { "SystemExit", "Error" } : exc' = e
    /\ pc' = "exited"
    /\ UNCHANGED << gps_alive, fix, missionVars, navVars, guidanceVars, motorVars, fnVars, sideVars >>

\* line 526: save_gps_data returns
CleanupSave ==
    /\ pc = "cleanup_save"
    /\ pc' = "cleanup_stop"
    /\ UNCHANGED << envVars, missionVars, navVars, guidanceVars, motorVars, fnVars, sideVars >>

\* line 526: save_gps_data raises (kml.save cannot write the file)
CleanupSaveRaises ==
    /\ pc = "cleanup_save"
    /\ exc' = "Error"
    /\ pc' = "exited"
    /\ UNCHANGED << gps_alive, fix, missionVars, navVars, guidanceVars, motorVars, fnVars, sideVars >>

\* lines 527-528: stop_motors, then main_example returns or re-raises
CleanupStop ==
    /\ pc = "cleanup_stop"
    /\ last_cmd' = StopCommand
    /\ cycle_cmds' = Append(cycle_cmds, StopCommand)
    /\ pc' = "exited"
    /\ UNCHANGED << envVars, missionVars, navVars, guidanceVars, fnVars, sideVars >>

\* the steps the main thread takes on its own
ProgramStep ==
    \/ NavigationOk
    \/ PollNotOk
    \/ PollSleep
    \/ Guidance
    \/ MissionControl
    \/ McTest
    \/ McStop
    \/ McSleep
    \/ McNext
    \/ Control
    \/ CycleSleep
    \/ CleanupSave
    \/ CleanupStop

Next ==
    \/ ProgramStep
    \/ GpsDisconnect
    \/ LoopException
    \/ SigIntInTry
    \/ SigIntInFinally
    \/ CleanupSaveRaises

Spec == Init /\ [][Next]_vars

---------------------------------------------------------------------------
(* Coordinate.angle_to called on its own *)

\* the mission-loop variables while a function is exercised alone
LoopIdle ==
    /\ exc = "none"
    /\ gps_alive = TRUE
    /\ fix = "unread"
    /\ waypoint_coords = << goal_coord >>
    /\ waypoint_coords_idx = 0
    /\ waypoint_coord = goal_coord
    /\ current_coord = goal_coord
    /\ cur_heading = 0
    /\ distance_to_waypoint = 0
    /\ heading_to_waypoint = 0
    /\ last_cmd = << >>
    /\ cycle_cmds = << >>
    /\ idx0 = 0

loopVars == << envVars, missionVars, navVars, guidanceVars, motorVars >>

\* headings and bearings, whole degrees of [0, 360)
Degrees == 0..(FullTurn - 1)

\* displacement vectors whose arctan2 is a whole number of degrees
CompassVectors == { << dx, dy >> \in (-1..1) \X (-1..1) : TRUE }

InitAngle ==
    /\ SideIdle
    /\ LoopIdle
    /\ fn_out = 0
    /\ \/ /\ pc = "call_wrap"
          /\ fn_in \in [ b : Degrees, h : Degrees ]
       \/ /\ pc = "call_angle_to"
          /\ fn_in \in [ v : CompassVectors, h : Degrees ]

\* lines 120-126 on a target heading b and a current heading h
ApplyAngleDiff ==
    /\ pc = "call_wrap"
    /\ fn_out' = AngleDiff(fn_in.b, fn_in.h)
    /\ pc' = "return_wrap"
    /\ UNCHANGED << fn_in, loopVars, sideVars >>

\* angle_to from the origin to the point v, at heading h
ApplyAngleTo ==
    /\ pc = "call_angle_to"
    /\ fn_out' = angle_to(Coordinate(0, 0), Coordinate(fn_in.v[1], fn_in.v[2]), fn_in.h)
    /\ pc' = "return_angle_to"
    /\ UNCHANGED << fn_in, loopVars, sideVars >>

NextAngle ==
    \/ ApplyAngleDiff
    \/ ApplyAngleTo

SpecAngle == InitAngle /\ [][NextAngle]_vars

---------------------------------------------------------------------------
(* The control law called on its own *)

InitControl ==
    /\ SideIdle
    /\ LoopIdle
    /\ fn_out = << >>
    /\ pc = "call_thrust"
    /\ fn_in \in [ d : 0..MaxDist, e : (-HalfTurn)..HalfTurn ]

\* lines 483-509 on a distance d and a heading error e
ApplyThrust ==
    /\ pc = "call_thrust"
    /\ fn_out' = ThrustCommand(fn_in.d, fn_in.e)
    /\ pc' = "return_thrust"
    /\ UNCHANGED << fn_in, loopVars, sideVars >>

NextControl == ApplyThrust

SpecControl == InitControl /\ [][NextControl]_vars

---------------------------------------------------------------------------
(* compute_compass_heading on its own *)

MaxMag == 2

\* calibrated field vectors: the eight compass directions and the zero vector
\* at several magnitudes, the directions a negligible angle off the x axis,
\* each with every vertical component
FieldVectors ==
    { << k * d[1], k * d[2], z >> :
          k \in 1..MaxMag, d \in CompassVectors, z \in (-MaxMag)..MaxMag }
    \cup
    { << k * Negligible, k * sgn, z >> :
          k \in 1..MaxMag, sgn \in { -1, 1 }, z \in (-MaxMag)..MaxMag }

InitHeading ==
    /\ SideIdle
    /\ LoopIdle
    /\ fn_out = << >>
    /\ pc = "call_heading"
    /\ fn_in \in FieldVectors

ApplyHeading ==
    /\ pc = "call_heading"
    /\ fn_out' = compute_compass_heading(fn_in)
    /\ pc' = "return_heading"
    /\ UNCHANGED << fn_in, loopVars, sideVars >>

NextHeading == ApplyHeading

SpecHeading == InitHeading /\ [][NextHeading]_vars

---------------------------------------------------------------------------
(* convert_to_utm on its own *)

UTM_ZONE == 30

\* Proj(proj='utm', zone=UTM_ZONE, ...): central meridian of the zone, false
\* easting of the projection, and metres per degree of the whole-degree grid
CentralMeridian == 6 * UTM_ZONE - 183
FalseEasting == 500000
MetresPerDegree == 111000

\* stands for the float inf: larger than every other number of the model
Inf == 2147483647

GeoStep == 45
MaxGeoSteps == 4

\* latitudes and longitudes handed to convert_to_utm, in whole degrees; both
\* sets reach beyond the valid ranges
Latitudes == { GeoStep * k : k \in (-MaxGeoSteps)..MaxGeoSteps }
Longitudes == { 2 * GeoStep * k : k \in (-MaxGeoSteps)..MaxGeoSteps }

InGeodeticRange(lat, lon) == Abs(lat) <= QuarterTurn /\ Abs(lon) <= HalfTurn

\* longitude brought back into [-180, 180] as the projection library does
WrapLongitude(lon) ==
    IF lon > HalfTurn THEN lon - FullTurn
    ELSE IF lon < -HalfTurn THEN lon + FullTurn
    ELSE lon

\* the plane position of a valid pair, linear around the central meridian
Easting(lon) == FalseEasting + MetresPerDegree * (lon - CentralMeridian)
Northing(lat) == MetresPerDegree * lat

\* projDegree2Meter(lon, lat), called without errcheck: the pairs the library
\* can return.  It raises nothing; a pair it cannot project comes back as
\* (inf, inf), and a longitude beyond 180 may be wrapped and projected.
projDegree2Meter(lon, lat) ==
    IF InGeodeticRange(lat, lon)
    THEN { << Easting(lon), Northing(lat) >> }
    ELSE { << Inf, Inf >> }
         \cup (IF Abs(lat) <= QuarterTurn
               THEN { << Easting(WrapLongitude(lon)), Northing(lat) >> }
               ELSE { })

InitUtm ==
    /\ SideIdle
    /\ LoopIdle
    /\ fn_out = << >>
    /\ pc = "call_utm"
    /\ fn_in \in [ lat : Latitudes, lon : Longitudes ]

\* lines 228-229: no test of the arguments, no raise; whatever pair the
\* library returns is wrapped in a Coordinate
convert_to_utm ==
    /\ pc = "call_utm"
    /\ \E xy \in projDegree2Meter(fn_in.lon, fn_in.lat) :
          fn_out' = [ raised |-> "none", value |-> Coordinate(xy[1], xy[2]) ]
    /\ pc' = "return_utm"
    /\ UNCHANGED << fn_in, loopVars, sideVars >>

NextUtm == convert_to_utm

SpecUtm == InitUtm /\ [][NextUtm]_vars

---------------------------------------------------------------------------
(* The telemetry snapshot: navigation() publishes, do_GET serves *)

MaxCalls == 3

\* the keys of the dict display of lines 382-388, in its order
Fields == << "timestamp", "position", "distance_to_ref", "angle_to_ref",
             "compass_heading" >>

\* dict d with key f set to value v
DictSet(d, f, v) == [ g \in (DOMAIN d) \cup { f } |-> IF g = f THEN v ELSE d[g] ]

\* the object the dict display writes into: the published dict itself
NewDict_InPlace == latest_nav_data

\* the object the dict display writes into: a new dict, which nothing else
\* refers to
NewDict == Len(dicts) + 1

\* the main thread enters navigation(): line 434, then line 465 every cycle
NavCall ==
    /\ nav_pc = "call"
    /\ nav_calls < MaxCalls
    /\ nav_calls' = nav_calls + 1
    /\ nav_pc' = "create"
    /\ UNCHANGED << dicts, latest_nav_data, nav_dict, nav_k,
                    http_pc, http_ref, http_body, http_k, response,
                    pc, loopVars, fnVars, relayVars >>

\* line 382: the dict display starts on its object
NavCreate ==
    /\ nav_pc = "create"
    /\ nav_dict' = NewDict
    /\ dicts' = IF NewDict > Len(dicts) THEN Append(dicts, EmptyDict) ELSE dicts
    /\ nav_k' = 1
    /\ nav_pc' = "fill"
    /\ UNCHANGED << latest_nav_data, nav_calls,
                    http_pc, http_ref, http_body, http_k, response,
                    pc, loopVars, fnVars, relayVars >>

\* lines 383-387: one item of the display, a value measured in this call
NavFill ==
    /\ nav_pc = "fill"
    /\ nav_k <= Len(Fields)
    /\ dicts' = [ dicts EXCEPT ![nav_dict] = DictSet(@, Fields[nav_k], nav_calls) ]
    /\ nav_k' = nav_k + 1
    /\ UNCHANGED << latest_nav_data, nav_pc, nav_calls, nav_dict,
                    http_pc, http_ref, http_body, http_k, response,
                    pc, loopVars, fnVars, relayVars >>

\* line 382, the assignment: the global is rebound to the finished dict
NavPublish ==
    /\ nav_pc = "fill"
    /\ nav_k > Len(Fields)
    /\ latest_nav_data' = nav_dict
    /\ nav_pc' = IF http_pc = "down" THEN "start_server" ELSE "call"
    /\ UNCHANGED << dicts, nav_calls, nav_dict, nav_k,
                    http_pc, http_ref, http_body, http_k, response,
                    pc, loopVars, fnVars, relayVars >>

\* lines 454-456, after the first navigation() call of line 434
ServerStart ==
    /\ nav_pc = "start_server"
    /\ http_pc' = "listen"
    /\ nav_pc' = "call"
    /\ UNCHANGED << dicts, latest_nav_data, nav_calls, nav_dict, nav_k,
                    http_ref, http_body, http_k, response,
                    pc, loopVars, fnVars, relayVars >>

\* lines 66-69: a GET /api/nav_data arrives and the headers are sent
HttpGet ==
    /\ http_pc = "listen"
    /\ http_pc' = "load"
    /\ UNCHANGED << dicts, latest_nav_data, nav_pc, nav_calls, nav_dict, nav_k,
                    http_ref, http_body, http_k, response,
                    pc, loopVars, fnVars, relayVars >>

\* line 72: the global is read once, as the argument of json.dumps
HttpLoad ==
    /\ http_pc = "load"
    /\ http_ref' = latest_nav_data
    /\ http_body' = EmptyDict
    /\ http_k' = 1
    /\ http_pc' = "dump"
    /\ UNCHANGED << dicts, latest_nav_data, nav_pc, nav_calls, nav_dict, nav_k,
                    response, pc, loopVars, fnVars, relayVars >>

\* line 72, json.dumps: one item of the loaded dict is serialised
HttpDump ==
    /\ http_pc = "dump"
    /\ http_k <= Len(Fields)
    /\ http_body' = IF Fields[http_k] \in DOMAIN dicts[http_ref]
                    THEN DictSet(http_body, Fields[http_k],
                                 dicts[http_ref][Fields[http_k]])
                    ELSE http_body
    /\ http_k' = http_k + 1
    /\ UNCHANGED << dicts, latest_nav_data, nav_pc, nav_calls, nav_dict, nav_k,
                    http_pc, http_ref, response, pc, loopVars, fnVars, relayVars >>

\* line 72, wfile.write: the response body leaves
HttpWrite ==
    /\ http_pc = "dump"
    /\ http_k > Len(Fields)
    /\ response' = << http_body >>
    /\ http_pc' = "listen"
    /\ UNCHANGED << dicts, latest_nav_data, nav_pc, nav_calls, nav_dict, nav_k,
                    http_ref, http_body, http_k, pc, loopVars, fnVars, relayVars >>

InitTelemetry ==
    /\ LoopIdle
    /\ TelemetryIdle
    /\ RelayIdle
    /\ pc = "telemetry"
    /\ fn_in = << >>
    /\ fn_out = << >>

NextTelemetry ==
    \/ NavCall
    \/ NavCreate
    \/ NavFill
    \/ NavPublish
    \/ ServerStart
    \/ HttpGet
    \/ HttpLoad
    \/ HttpDump
    \/ HttpWrite

SpecTelemetry == InitTelemetry /\ [][NextTelemetry]_vars

---------------------------------------------------------------------------
(* The two DDMM.MMMM conversions of src/ddboat.py.  A GLL field is a whole  *)
(* number of the form DDMM; a converted angle is counted in arc minutes, so *)
(* that degrees + minutes / 60 is exact.                                    *)

MaxGllDeg == 2

\* one DDMM field: float(int(v / 100)) + (v % 100) / 60, in arc minutes
DdmmToMinutes(v) == 60 * (v \div 100) + (v % 100)

\* cvt_gll_ddmm_2_dd (lines 109-131)
cvt_gll_ddmm_2_dd(gll_data) ==
    LET olat == DdmmToMinutes(gll_data[1])
        olon == DdmmToMinutes(gll_data[3])
    IN  << IF gll_data[2] = "S" THEN -olat ELSE olat,
           IF gll_data[4] = "W" THEN -olon ELSE olon >>

\* the conversion written out in navigation() (lines 299-304)
navigation_lat_lon(gll_data) ==
    LET lat == DdmmToMinutes(gll_data[1])
        lon == DdmmToMinutes(gll_data[3])
    IN  << lat, IF gll_data[4] = "W" THEN -lon ELSE lon >>

\* DDMM fields of a GLL sentence
GllFields == { 100 * d + m : d \in 0..MaxGllDeg, m \in { 0, 30, 59 } }

InitGll ==
    /\ LoopIdle
    /\ SideIdle
    /\ fn_out = << >>
    /\ pc = "call_gll"
    /\ fn_in \in GllFields \X { "N", "S" } \X GllFields \X { "E", "W" }

\* both conversions on the same sentence
ApplyGll ==
    /\ pc = "call_gll"
    /\ fn_out' = [ helper |-> cvt_gll_ddmm_2_dd(fn_in),
                   inline |-> navigation_lat_lon(fn_in) ]
    /\ pc' = "return_gll"
    /\ UNCHANGED << fn_in, loopVars, sideVars >>

NextGll == ApplyGll

SpecGll == InitGll /\ [][NextGll]_vars

---------------------------------------------------------------------------
(* nav_data_app.py: the relay between a boat's /api/nav_data and the       *)
(* dashboard.  fetch_gps_data runs in its own thread; every Flask handler  *)
(* runs in a thread of the server.  A sample is recorded by the URL it was *)
(* fetched from.                                                           *)

MaxHistory == 3

\* addresses a client may post to /set_data_source_ip
IPs == { "127.0.0.1", "192.168.0.2" }

relayRest == << pc, loopVars, fnVars, teleVars >>

\* lines 29-30: the request goes out to the URL the global names now
FetchRequest ==
    /\ fetch_pc = "fetch"
    /\ fetch_url' = data_url
    /\ fetch_pc' = "in_flight"
    /\ UNCHANGED << data_source_ip, data_url, gps_data_history, fetch_data,
                    post_pc, history_data, relayRest >>

\* lines 30-32: status 200, the body is a sample of the source asked
FetchResponseOk ==
    /\ fetch_pc = "in_flight"
    /\ fetch_data' = [ source |-> fetch_url ]
    /\ fetch_pc' = "append"
    /\ UNCHANGED << data_source_ip, data_url, gps_data_history, fetch_url,
                    post_pc, history_data, relayRest >>

\* lines 39-44: another status, a timeout or a refused connection
FetchFailed ==
    /\ fetch_pc = "in_flight"
    /\ fetch_pc' = "sleep"
    /\ UNCHANGED << data_source_ip, data_url, gps_data_history, fetch_url,
                    fetch_data, post_pc, history_data, relayRest >>

\* lines 35-38: appended to the list the global names now, then emitted
FetchAppend ==
    /\ fetch_pc = "append"
    /\ Len(gps_data_history) < MaxHistory
    /\ gps_data_history' = Append(gps_data_history, fetch_data)
    /\ fetch_pc' = "sleep"
    /\ UNCHANGED << data_source_ip, data_url, fetch_url, fetch_data,
                    post_pc, history_data, relayRest >>

\* line 45
FetchSleep ==
    /\ fetch_pc = "sleep"
    /\ fetch_pc' = "fetch"
    /\ UNCHANGED << data_source_ip, data_url, gps_data_history, fetch_url,
                    fetch_data, post_pc, history_data, relayRest >>

\* set_data_source_ip, lines 72-73
PostSetIp ==
    /\ post_pc = "idle"
    /\ \E ip \in IPs : data_source_ip' = ip
    /\ post_pc' = "set_url"
    /\ UNCHANGED << data_url, gps_data_history, fetch_pc, fetch_url,
                    fetch_data, history_data, relayRest >>

\* set_data_source_ip, line 74
PostSetUrl ==
    /\ post_pc = "set_url"
    /\ data_url' = UrlOf(data_source_ip)
    /\ post_pc' = "clear"
    /\ UNCHANGED << data_source_ip, gps_data_history, fetch_pc, fetch_url,
                    fetch_data, history_data, relayRest >>

\* set_data_source_ip, lines 77-79
PostClear ==
    /\ post_pc = "clear"
    /\ gps_data_history' = << >>
    /\ post_pc' = "idle"
    /\ UNCHANGED << data_source_ip, data_url, fetch_pc, fetch_url,
                    fetch_data, history_data, relayRest >>

\* clear_data, lines 81-86
clear_data ==
    /\ post_pc = "idle"
    /\ gps_data_history' = << >>
    /\ UNCHANGED << data_source_ip, data_url, fetch_pc, fetch_url,
                    fetch_data, post_pc, history_data, relayRest >>

\* handle_connect, lines 48-51
handle_connect ==
    /\ history_data' = << gps_data_history >>
    /\ UNCHANGED << data_source_ip, data_url, gps_data_history, fetch_pc,
                    fetch_url, fetch_data, post_pc, relayRest >>

InitRelay ==
    /\ LoopIdle
    /\ TelemetryIdle
    /\ RelayIdle
    /\ pc = "relay"
    /\ fn_in = << >>
    /\ fn_out = << >>

NextRelay ==
    \/ FetchRequest
    \/ FetchResponseOk
    \/ FetchFailed
    \/ FetchAppend
    \/ FetchSleep
    \/ PostSetIp
    \/ PostSetUrl
    \/ PostClear
    \/ clear_data
    \/ handle_connect

SpecRelay == InitRelay /\ [][NextRelay]_vars

---------------------------------------------------------------------------
(* The mission loop with the main thread always scheduled.  Only the       *)
(* receiver acts on it from outside: no signal, no driver or file error.   *)

NextWait ==
    \/ ProgramStep
    \/ GpsDisconnect

SpecFair == Init /\ [][NextWait]_vars /\ WF_vars(ProgramStep)

---------------------------------------------------------------------------
(* main_example of src/ddboat.py: navigation() and guidance once a second, *)
(* towards goal_coord, with no try block and no motor command              *)

BasicPcs == { "b_nav", "b_guidance", "b_sleep" }

InitBasic ==
    /\ SideIdle
    /\ LoopIdle
    /\ pc = "b_nav"
    /\ fn_in = << >>
    /\ fn_out = << >>

\* navigation(), lines 298-331, when read_gll_non_blocking gives gll_ok
B_NavigationOk ==
    /\ pc = "b_nav"
    /\ \E p \in Points, m \in MagVectors :
          /\ current_coord' = p
          /\ cur_heading' = compute_compass_heading(m)
    /\ fix' = "ok"
    /\ pc' = "b_guidance"
    /\ UNCHANGED << exc, gps_alive, missionVars, guidanceVars, motorVars, fnVars, sideVars >>

\* navigation(), lines 298-299 and 331, when gll_ok is false: the return
\* statement reads current_coord and compass_heading, which were never
\* assigned in this call, and raises UnboundLocalError out of main_example
B_NavigationNotOk ==
    /\ pc = "b_nav"
    /\ fix' = "not_ok"
    /\ exc' = "Error"
    /\ pc' = "exited"
    /\ UNCHANGED << gps_alive, missionVars, navVars, guidanceVars, motorVars, fnVars, sideVars >>

\* main_example, lines 359-366
B_Guidance ==
    /\ pc = "b_guidance"
    /\ distance_to_waypoint' = distance_to(current_coord, waypoint_coord)
    /\ heading_to_waypoint' = angle_to(current_coord, waypoint_coord, cur_heading)
    /\ pc' = "b_sleep"
    /\ UNCHANGED << envVars, missionVars, navVars, motorVars, fnVars, sideVars >>

\* main_example, line 368
B_Sleep ==
    /\ pc = "b_sleep"
    /\ pc' = "b_nav"
    /\ UNCHANGED << envVars, missionVars, navVars, guidanceVars, motorVars, fnVars, sideVars >>

NextBasic ==
    \/ B_NavigationOk
    \/ B_NavigationNotOk
    \/ B_Guidance
    \/ B_Sleep

SpecBasic == InitBasic /\ [][NextBasic]_vars

---------------------------------------------------------------------------
(* Properties of the mission loop *)

\* pcs after the mission-control test of the current cycle
AfterMissionPcs == { "mc_test", "mc_stop", "mc_sleep", "mc_next", "control", "cycle_sleep" }

\* pcs at which waypoint_coord is the list entry under the cursor
SettledPcs == { "poll", "poll_sleep", "guidance", "mission", "control", "cycle_sleep" }

\* the cursor moved past the last waypoint: the sequencer is Complete
Complete == waypoint_coords_idx = Len(waypoint_coords)

\* C1: in a cycle that reaches a waypoint which is not the last one, the only
\* motor command sent is stop (0,0); no thrust command follows it before the
\* next cycle begins.
C1_StopOverridesThrust ==
    (pc = "cycle_sleep" /\ waypoint_coords_idx = idx0 + 1)
        => cycle_cmds = << StopCommand >>

\* C2: whenever main_example has left its mission loop and returned (or let
\* an exception out), stop (0,0) was sent and is the last motor command.
C2_StopOnEveryExit ==
    pc = "exited" => last_cmd = StopCommand

\* C3: while the loop runs the cursor is a valid index and waypoint_coord is
\* the list entry under it wherever guidance or control run; once the cursor
\* equals the list length the mission is Complete: the loop is left, the
\* cursor and the active waypoint never change again and the list is never
\* indexed again.
C3_CursorInv ==
    /\ waypoint_coords_idx \in 0..Len(waypoint_coords)
    /\ pc \in (TryPcs \ { "mc_test" }) => waypoint_coords_idx < Len(waypoint_coords)
    /\ pc \in SettledPcs => waypoint_coord = waypoint_coords[waypoint_coords_idx + 1]
    /\ Complete => pc \in ({ "mc_test", "exited" } \cup FinallyPcs)

C3_CompleteStep ==
    Complete => /\ waypoint_coords_idx' = waypoint_coords_idx
                /\ waypoint_coord' = waypoint_coord
                /\ waypoint_coords' = waypoint_coords
                /\ pc' \notin (TryPcs \ { "mc_test" })

\* C3, as one formula: the cursor invariant in every state, and no step out
\* of Complete that moves the cursor, the active waypoint or the list
C3_CursorValid == [] C3_CursorInv /\ [][C3_CompleteStep]_vars

\* C3 witness: the cursor has advanced to the second waypoint and guidance is
\* about to read it
C3_Witness ==
    /\ pc = "guidance"
    /\ waypoint_coords_idx = 1
    /\ waypoint_coord = waypoint_coords[2]
    /\ waypoint_coord # goal_coord

\* C4: the cursor never decreases; within a cycle it advances by one exactly
\* when that cycle's distance is strictly below the tolerance and by zero
\* otherwise; the mission is Complete only when the cycle began on the last
\* waypoint and its distance is below the tolerance.
C4_CycleInv ==
    /\ waypoint_coords_idx \in { idx0, idx0 + 1 }
    /\ pc \in { "poll", "poll_sleep", "guidance", "mission" } => waypoint_coords_idx = idx0
    /\ pc \in AfterMissionPcs =>
          (waypoint_coords_idx = idx0 + 1
              <=> distance_to_waypoint < acceptable_distance_err)
    /\ Complete => /\ idx0 = Len(waypoint_coords) - 1
                   /\ distance_to_waypoint < acceptable_distance_err

C4_CursorStep ==
    \/ waypoint_coords_idx' = waypoint_coords_idx
    \/ /\ waypoint_coords_idx' = waypoint_coords_idx + 1
       /\ pc = "mission"
       /\ distance_to_waypoint < acceptable_distance_err

\* C4, as one formula: the per-cycle invariant in every state, and every step
\* leaves the cursor alone or advances it by one on arrival
C4_AdvanceExactlyOnArrival == [] C4_CycleInv /\ [][C4_CursorStep]_vars

\* C4 witness: a cycle whose distance was exactly the tolerance ends without
\* an advance, after an earlier cycle advanced the cursor
C4_Witness ==
    /\ pc = "cycle_sleep"
    /\ distance_to_waypoint = acceptable_distance_err
    /\ idx0 = 1
    /\ waypoint_coords_idx = 1

\* C5: once the last waypoint is reached the loop ends in that cycle with no
\* thrust command, then exactly one stop (0,0) is sent and nothing after it.
C5_OneFinalStop ==
    (pc = "exited" /\ Complete) => cycle_cmds = << StopCommand >>

---------------------------------------------------------------------------
(* Properties of angle_to and of the control law *)

CompassBearing(v) ==
    CASE v = <<  0,  1 >> -> 0
      [] v = <<  1,  1 >> -> 45
      [] v = <<  1,  0 >> -> 90
      [] v = <<  1, -1 >> -> 135
      [] v = <<  0, -1 >> -> 180
      [] v = << -1, -1 >> -> 225
      [] v = << -1,  0 >> -> 270
      [] v = << -1,  1 >> -> 315

\* C9: round trip of the heading error: (h + heading_error(b, h)) mod 360 = b
\* for every bearing b and heading h of [0, 360), the bearing of a
\* displacement being its compass bearing; heading_error(1, 359) = 2 and
\* heading_error(359, 1) = -2.
C9_RoundTrip ==
    /\ pc = "return_wrap" =>
          /\ (fn_in.h + fn_out) % FullTurn = fn_in.b
          /\ (fn_in.b = 1 /\ fn_in.h = 359) => fn_out = 2
          /\ (fn_in.b = 359 /\ fn_in.h = 1) => fn_out = -2
    /\ (pc = "return_angle_to" /\ fn_in.v # << 0, 0 >>) =>
          (fn_in.h + fn_out) % FullTurn = CompassBearing(fn_in.v)

\* C9 witness: the wrap across north, bearing 1 at heading 359
C9_Witness ==
    /\ pc = "return_wrap"
    /\ fn_in.b = 1
    /\ fn_in.h = 359
    /\ fn_out = 2

\* the reference law in tenths of a motor unit: rot = 0.1 |e|, fwd/2 = d
RefClamp(t) == IF t < 500 THEN 50 ELSE IF t > 2550 THEN 255 ELSE t \div 10
RefLeft(d, e) == RefClamp(10 * d + (IF e > 20 THEN Abs(e) ELSE 0))
RefRight(d, e) == RefClamp(10 * d + (IF e < -20 THEN Abs(e) ELSE 0))

\* C10: for every distance d >= 0 and heading error e the command is the
\* reference law: rot = rot_gain |e| + rot_bias goes to the left side only
\* when e > 20, to the right side only when e < -20, to neither side when
\* -20 <= e <= 20; fwd / 2 goes to both sides; each side is clamped to
\* [50, 255] and truncated.  Distance 100 with e = -90 gives (100, 109).
C10_ReferenceLaw ==
    pc = "return_thrust" =>
        /\ fn_out = << RefLeft(fn_in.d, fn_in.e), RefRight(fn_in.d, fn_in.e) >>
        /\ (fn_in.e >= -20 /\ fn_in.e <= 20) => fn_out[1] = fn_out[2]
        /\ fn_in.e > 20 => fn_out[1] >= fn_out[2]
        /\ fn_in.e < -20 => fn_out[2] >= fn_out[1]
        /\ (fn_in.d = 100 /\ fn_in.e = -90) => fn_out = << 100, 109 >>

\* C10 witness: the worked example, distance 100 and heading error -90
C10_Witness ==
    /\ pc = "return_thrust"
    /\ fn_in.d = 100
    /\ fn_in.e = -90
    /\ fn_out = << 100, 109 >>

---------------------------------------------------------------------------
(* Properties of the wait for a position fix *)

\* C6: a cycle whose non-blocking GPS read is not ok sends no motor command,
\* leaves the cursor and the last thrust alone, and the loop goes on to its
\* next cycle.
C6_NoFixSkipsCycle ==
    fix = "not_ok" =>
        /\ pc \in BasicPcs
        /\ exc = "none"
        /\ cycle_cmds = << >>
        /\ waypoint_coords_idx = 0

\* C7: the wait for a fix is bounded: once the receiver delivers no more
\* fixes, the loop ends its cycles and, after a bounded number of them,
\* leaves with the motors stopped instead of polling for ever.
C7_BoundedWait ==
    [](~gps_alive => <>(pc = "exited"))

---------------------------------------------------------------------------
(* Properties of the motor commands *)

\* a command whose two sides are within the actuator range of the control law
Clamped(cmd) == cmd[1] \in MIN_THRUST..MAX_THRUST /\ cmd[2] \in MIN_THRUST..MAX_THRUST

\* C11: every motor command of a run is either the stop (0,0) of stop_motors
\* or a control-law command with both sides in [50, 255]; a control-law
\* command is never (0,0), so the two are always told apart.
C11_StopOrClamped ==
    /\ \A i \in 1..Len(cycle_cmds) :
          cycle_cmds[i] = StopCommand \/ Clamped(cycle_cmds[i])
    /\ last_cmd # << >> => (last_cmd = StopCommand \/ Clamped(last_cmd))
    /\ pc = "cycle_sleep" => (Clamped(last_cmd) /\ last_cmd # StopCommand)
    /\ pc \in { "mc_sleep", "mc_next" } => last_cmd = StopCommand

\* C11 witness: a cycle that sent the stop and then the clamped-minimum
\* command, and earlier cycles that drove one side at the upper limit
C11_Witness ==
    /\ pc = "cycle_sleep"
    /\ cycle_cmds = << StopCommand, << MIN_THRUST, MIN_THRUST >> >>

\* C11 second witness state: a command clamped at the upper limit
C11_UpperLimitReached ==
    /\ pc = "cycle_sleep"
    /\ last_cmd = << MAX_THRUST, MAX_THRUST >>

---------------------------------------------------------------------------
(* Properties of the compass heading *)

\* the value of a returned heading: atan2(y, x) in degrees when that is not
\* negative, 360 more when it is (atan2(y, x) is negative exactly when y is)
C12_Value ==
    LET x == fn_in[1]
        y == fn_in[2]
    IN  /\ y >= 0 => fn_out = Atan2Deg(y, x)
        /\ y < 0  => fn_out = Atan2Deg(y, x) + FullTurn
        /\ \A z \in (-MaxMag)..MaxMag :
              compute_compass_heading(<< x, y, z >>) = fn_out

\* C12 as stated: the heading returned for a calibrated field vector lies in
\* [0, 360), is atan2(y, x) in degrees or 360 more when that is negative, and
\* does not depend on z.
C12_HalfOpenRange ==
    pc = "return_heading" => (fn_out \in 0..(FullTurn - 1) /\ C12_Value)

\* C12 amended: the heading lies in [0, 360], with the same value and the same
\* independence of z; it is 360 exactly for a negative angle so small that
\* adding 360 to it gives 360.0.
C12_ClosedRange ==
    pc = "return_heading" =>
        /\ fn_out \in 0..FullTurn
        /\ C12_Value
        /\ fn_out = FullTurn <=>
              (fn_in[2] < 0 /\ Abs(fn_in[2]) * Negligible <= fn_in[1])

\* C12 witness: a field a negligible angle below the x axis returned 360
C12_Witness ==
    /\ pc = "return_heading"
    /\ fn_in = << Negligible, -1, 1 >>
    /\ fn_out = FullTurn

---------------------------------------------------------------------------
(* Properties of the projection *)

\* C13: convert_to_utm called with |lat| > 90 or |lon| > 180 fails with an
\* InvalidCoordinate error and returns no Coordinate.
C13_RejectsOutOfRange ==
    (pc = "return_utm" /\ ~InGeodeticRange(fn_in.lat, fn_in.lon)) =>
        (fn_out.raised = "InvalidCoordinate" /\ fn_out.value = << >>)

\* the state that refutes C13: latitude 135 came back as a Coordinate
C13_CoordinateReturned ==
    /\ pc = "return_utm"
    /\ fn_in = [ lat |-> 3 * GeoStep, lon |-> 0 ]
    /\ fn_out.raised = "none"

---------------------------------------------------------------------------
(* Properties of the guidance behind a thrust command *)

\* C14: a thrust command just sent was computed from the distance and the
\* heading error measured in this cycle to the waypoint that is active when
\* it is sent; after the cursor moved on, nothing is computed from the
\* waypoint left behind.
C14_ThrustFromActiveWaypoint ==
    pc = "cycle_sleep" =>
        /\ distance_to_waypoint = distance_to(current_coord, waypoint_coord)
        /\ heading_to_waypoint =
              angle_to(current_coord, waypoint_coord, cur_heading)
        /\ last_cmd = ThrustCommand(distance_to_waypoint, heading_to_waypoint)

\* the state that refutes C14: the cursor advanced in this cycle and the
\* thrust sent after it is the one for the distance to the waypoint left
C14_StaleThrust ==
    /\ pc = "cycle_sleep"
    /\ waypoint_coords_idx = idx0 + 1
    /\ distance_to_waypoint = distance_to(current_coord, waypoint_coords[idx0 + 1])
    /\ distance_to_waypoint # distance_to(current_coord, waypoint_coord)
    /\ last_cmd # ThrustCommand(distance_to(current_coord, waypoint_coord),
                                angle_to(current_coord, waypoint_coord, cur_heading))

---------------------------------------------------------------------------
(* Properties of the telemetry snapshot *)

\* the snapshot of the n-th navigation() call: every key, each with the value
\* of that call
WholeSnapshot(n) == [ f \in { Fields[i] : i \in 1..Len(Fields) } |-> n ]

\* C15: the body of every GET /api/nav_data response is the empty snapshot or
\* one complete snapshot, all of whose fields come from a single navigation()
\* call that has published; it never mixes two calls and never lacks a field.
C15_WholeSnapshotServed ==
    response # << >> =>
        \/ response[1] = EmptyDict
        \/ \E n \in 1..nav_calls :
              /\ response[1] = WholeSnapshot(n)
              /\ (n < nav_calls \/ nav_pc \in { "start_server", "call" })

\* C15 witness: a complete snapshot was served, and do_GET is again part way
\* through the published dict (that of call 2) while navigation() is part way
\* through the dict display of call 3, a different object
C15_Witness ==
    /\ response = << WholeSnapshot(1) >>
    /\ nav_calls = 3
    /\ nav_pc = "fill"
    /\ nav_k = 3
    /\ http_pc = "dump"
    /\ http_k = 4
    /\ http_ref = latest_nav_data
    /\ http_ref # nav_dict
    /\ dicts[http_ref] = WholeSnapshot(2)

---------------------------------------------------------------------------
(* Properties of the GLL conversion *)

\* C16: for every GLL sentence, also with hemisphere 'S' or 'W', the
\* conversion written out in navigation() of src/ddboat.py gives the same
\* (lat, lon) as cvt_gll_ddmm_2_dd.
C16_InlineEqualsHelper ==
    pc = "return_gll" => fn_out.inline = fn_out.helper

\* the state that refutes C16: a southern latitude that navigation() keeps
\* positive
C16_SouthKeptPositive ==
    /\ pc = "return_gll"
    /\ fn_in = << 130, "S", 259, "W" >>
    /\ fn_out.helper = << -90, -179 >>
    /\ fn_out.inline = << 90, -179 >>

---------------------------------------------------------------------------
(* Properties of the relay *)

\* every sample of history h was fetched from the URL the relay names now
FromCurrentSource(h) == \A i \in 1..Len(h) : h[i].source = data_url

\* C17: once set_data_source_ip has set the source and cleared the history,
\* gps_data_history, and the history_data sent to a client that connects
\* then, hold only samples fetched from the new data_url, however the handler
\* interleaves with fetch_gps_data.
C17_HistoryFromNewSource ==
    post_pc = "idle" => FromCurrentSource(gps_data_history)

\* the state that refutes C17: the handler has finished, and a client that
\* connected afterwards was sent a history made of a sample of the old source
C17_OldSampleRelayed ==
    /\ post_pc = "idle"
    /\ data_url = UrlOf("192.168.0.2")
    /\ gps_data_history = << [ source |-> UrlOf("127.0.0.1") ] >>
    /\ history_data = << gps_data_history >>

=============================================================================
